---- MODULE Spec2Model ----
(***************************************************************************)
(* Model of the multi-subject fNIRS loading script (src/zzz.py).           *)
(*                                                                         *)
(* The script scans a directory tree for *.snirf files, sorts the paths    *)
(* in descending order, assigns one label "sub-NN" per path, and then, one *)
(* file at a time, reads the recording, builds the differential pathlength *)
(* factor array, derives optical density and concentration, and stores the *)
(* bundle in the dictionary `data` under the subject label.                *)
(*                                                                         *)
(* A path is a sequence of names; a name is a stem f<i> plus a suffix.     *)
(* A label is a sequence of characters.  A recording's amplitude is a      *)
(* three-dimensional array amp[channel][wavelength][time] of positive      *)
(* integers; derived values are exact rationals <<num, den>> in lowest     *)
(* terms, and the logarithm is an uninterpreted symbol applied to them.    *)
(***************************************************************************)
EXTENDS Integers, Sequences, FiniteSets, TLC

VARIABLES
    fs,        \* the directory tree under vfc: path -> file content
    pc,        \* position of the script
    fnames,    \* line 26
    subjects,  \* line 27
    data,      \* line 30
    it,        \* number of pairs the zip iterator of line 31 has yielded
    subject,   \* loop variable, line 31
    fname,     \* loop variable, line 31
    elements,  \* line 34
    amp,       \* line 36
    stim,      \* line 37
    geo3d,     \* line 38
    dpf,       \* line 47
    stdout,    \* what print(fname) has written, line 32
    reads      \* history of the calls of cedalion.io.read_snirf, line 34

vars == <<fs, pc, fnames, subjects, data, it, subject, fname, elements,
          amp, stim, geo3d, dpf, stdout, reads>>

-----------------------------------------------------------------------------
(* Bounds of the model *)

MaxStem == 2
MaxFiles == 3
MaxWl == 3
NCh == 2
NT == 3
MaxAmp == 3

(* Program constants *)

DpfValue == 6
LabelWidth == 2

-----------------------------------------------------------------------------
(* Small helpers *)

Range(s) == {s[i] : i \in 1..Len(s)}

Min(a, b) == IF a < b THEN a ELSE b

RECURSIVE Gcd(_, _)
Gcd(a, b) == IF b = 0 THEN a ELSE Gcd(b, a % b)

\* The rational n/d (n, d > 0) in lowest terms.
Rat(n, d) == LET g == Gcd(n, d) IN <<n \div g, d \div g>>

RECURSIVE SumSeq(_)
SumSeq(s) == IF s = <<>> THEN 0 ELSE s[1] + SumSeq(Tail(s))

Perms(S) == {s \in [1..Cardinality(S) -> S] : \A i, j \in 1..Cardinality(S) : s[i] = s[j] => i = j}

-----------------------------------------------------------------------------
(* Paths: pathlib.Path values below vfc *)

SnirfSuffix == ".snirf"

Suffixes == {SnirfSuffix, ".txt"}

\* Rank of a suffix in string order: "" < ".snirf" < ".txt".
SuffixRank(s) == IF s = "" THEN 0 ELSE IF s = SnirfSuffix THEN 1 ELSE 2

FileNames == [stem : 1..MaxStem, suffix : Suffixes]

SubDir == [stem |-> 1, suffix |-> ""]

\* The candidate files: any name directly in vfc, and the names of stem 1
\* in the subdirectory f1.
Paths ==
    {<<n>> : n \in FileNames} \cup {<<SubDir, n>> : n \in {m \in FileNames : m.stem = 1}}

\* String order of the names f<stem><suffix>.
NameLess(a, b) ==
    \/ a.stem < b.stem
    \/ a.stem = b.stem /\ SuffixRank(a.suffix) < SuffixRank(b.suffix)

\* Path.__lt__: the parts compared as lists, lexicographically.
PathLess(p, q) ==
    \/ \E i \in 1..Min(Len(p), Len(q)) :
          /\ \A j \in 1..(i - 1) : p[j] = q[j]
          /\ NameLess(p[i], q[i])
    \/ /\ Len(p) < Len(q)
       /\ \A j \in 1..Len(p) : p[j] = q[j]

\* The pattern "*.snirf" against the last part of the path.
MatchesSnirf(p) == p[Len(p)].suffix = SnirfSuffix

GlobAll(tree) == DOMAIN tree

\* vfc.rglob("*.snirf"): the matching paths of the whole tree.
RGlob(tree) == {p \in DOMAIN tree : MatchesSnirf(p)}

\* s with x put before the first element that is greater than x.
RECURSIVE Insert(_, _)
Insert(x, s) ==
    IF s = <<>> THEN <<x>>
    ELSE IF PathLess(x, s[1]) THEN <<x>> \o s
    ELSE <<s[1]>> \o Insert(x, Tail(s))

\* sorted(list(...)): ascending.
RECURSIVE Sorted(_)
Sorted(s) == IF s = <<>> THEN <<>> ELSE Insert(s[1], Sorted(Tail(s)))

\* [::-1]
Reversed(s) == [i \in 1..Len(s) |-> s[Len(s) + 1 - i]]

SortedAscending(order) == Sorted(order)

\* sorted(list(vfc.rglob("*.snirf")))[::-1] applied to what the scan yields.
SortedReversed(order) == Reversed(Sorted(order))

-----------------------------------------------------------------------------
(* Subject labels *)

DigitChars == <<"0", "1", "2", "3", "4", "5", "6", "7", "8", "9">>

RECURSIVE Decimal(_)
Decimal(i) ==
    IF i < 10 THEN <<DigitChars[i + 1]>>
    ELSE Decimal(i \div 10) \o <<DigitChars[(i % 10) + 1]>>

RECURSIVE ZeroPad(_, _)
ZeroPad(s, width) == IF Len(s) >= width THEN s ELSE ZeroPad(<<"0">> \o s, width)

LabelPrefix == <<"s", "u", "b", "-">>

LabelUnpadded(i) == LabelPrefix \o Decimal(i)

\* f"sub-{i:02d}"
Label(i) == LabelPrefix \o ZeroPad(Decimal(i), LabelWidth)

\* [f"sub-{i:02d}" for i in range(1, len(fnames)+1)]
Labels(files) == [i \in 1..Len(files) |-> Label(i)]

-----------------------------------------------------------------------------
(* File contents *)

\* The name is unbound / the file holds no such part.
None == <<>>

\* The time course of the first channel at the first wavelength.
Signals == [1..NT -> 1..MaxAmp]

RampSignal == [t \in 1..NT |-> 1 + ((t - 1) % MaxAmp)]

\* A recording with nwl wavelengths whose time course sig is shifted by one
\* unit per channel and per wavelength.
Recording(nwl, sig) ==
    [c \in 1..NCh |-> [w \in 1..nwl |-> [t \in 1..NT |-> sig[t] + (c - 1) + (w - 1)]]]

UnreadableKind == [readable |-> FALSE, nwl |-> 0, sig |-> None]

Kinds(sigs) ==
    {UnreadableKind} \cup [readable : {TRUE}, nwl : 1..MaxWl, sig : sigs]

\* The content of the file at p: read_snirf fails on it, or it holds one
\* recording with amplitude, stimulus table and geometry of its own.
Content(p, kind) ==
    IF kind.readable
    THEN [readable |-> TRUE,
          amp      |-> Recording(kind.nwl, kind.sig),
          stim     |-> <<"stim", p>>,
          geo3d    |-> <<"geo3d", p>>]
    ELSE [readable |-> FALSE, amp |-> None, stim |-> None, geo3d |-> None]

\* The directory trees of at most n files; files that are not *.snirf are
\* not SNIRF files.
Trees(n, sigs) ==
    UNION { { [p \in S |-> Content(p, kind[p])] :
                kind \in {k \in [S -> Kinds(sigs)] :
                            \A p \in S : ~MatchesSnirf(p) => k[p] = UnreadableKind} } :
            S \in {T \in SUBSET Paths : Cardinality(T) <= n} }

NumWavelengths(a) == Len(a[1])

-----------------------------------------------------------------------------
(* The derived signals *)

\* amp.mean("time"): one value per channel and wavelength.
MeanTime(a) ==
    [c \in 1..Len(a) |-> [w \in 1..Len(a[c]) |->
        Rat(SumSeq(a[c][w]), Len(a[c][w]))]]

\* amp.mean("wavelength"): one value per channel and time.
MeanWavelength(a) ==
    [c \in 1..Len(a) |-> [t \in 1..Len(a[c][1]) |->
        Rat(SumSeq([w \in 1..Len(a[c]) |-> a[c][w][t]]), Len(a[c]))]]

\* x / q for a sample x and a rational q.
Divide(x, q) == Rat(x * q[2], q[1])

\* np.log of one element.
Log(q) == <<"log", q>>

\* unary minus of one element.
Neg(x) == <<"neg", x>>

OpticalDensityOverWavelength(a) ==
    LET m == MeanWavelength(a)
    IN  [c \in 1..Len(a) |-> [w \in 1..Len(a[c]) |-> [t \in 1..Len(a[c][w]) |->
            Neg(Log(Divide(a[c][w][t], m[c][t])))]]]

\* - np.log( amp / amp.mean("time") ): elementwise, the mean broadcast
\* along time.
OpticalDensity(a) ==
    LET m == MeanTime(a)
    IN  [c \in 1..Len(a) |-> [w \in 1..Len(a[c]) |-> [t \in 1..Len(a[c][w]) |->
            Neg(Log(Divide(a[c][w][t], m[c][w])))]]]

\* cedalion.nirs.beer_lambert(amp, geo3d, dpf): the library call, kept as
\* the call with its three arguments.
BeerLambert(a, g, d) == [fn |-> "beer_lambert", amp |-> a, geo3d |-> g, dpf |-> d]

\* The values [6, 6] of the differential pathlength factor.
DpfValues == <<DpfValue, DpfValue>>

DatasetWithoutStim(subj, a, s, g, d) ==
    [data_vars |-> [amp  |-> a,
                    od   |-> OpticalDensity(a),
                    geo  |-> g,
                    conc |-> BeerLambert(a, g, d)],
     attrs     |-> [stim |-> None],
     coords    |-> [subject |-> subj]]

\* xr.Dataset(data_vars={...}, attrs={"stim": stim}, coords={"subject": subject})
Dataset(subj, a, s, g, d) ==
    [data_vars |-> [amp  |-> a,
                    od   |-> OpticalDensity(a),
                    geo  |-> g,
                    conc |-> BeerLambert(a, g, d)],
     attrs     |-> [stim |-> s],
     coords    |-> [subject |-> subj]]

\* d with d[k] = v
Assign(d, k, v) == [x \in (DOMAIN d) \cup {k} |-> IF x = k THEN v ELSE d[x]]

EmptyDict == <<>>

-----------------------------------------------------------------------------
(* The script *)

Unbound ==
    /\ pc = "scan"
    /\ fnames = None
    /\ subjects = None
    /\ data = EmptyDict
    /\ it = 0
    /\ subject = None
    /\ fname = None
    /\ elements = None
    /\ amp = None
    /\ stim = None
    /\ geo3d = None
    /\ dpf = None
    /\ stdout = <<>>
    /\ reads = <<>>

\* Any tree of at most MaxFiles files, each recording with the ramp signal.
Init ==
    /\ fs \in Trees(MaxFiles, {RampSignal})
    /\ Unbound

\* One file, its recording with any signal.
InitOD ==
    /\ fs \in Trees(1, Signals)
    /\ Unbound

\* Line 26: the scan yields the matching paths in some order; they are
\* sorted and reversed.
Scan ==
    /\ pc = "scan"
    /\ \E order \in Perms(RGlob(fs)) : fnames' = SortedReversed(order)
    /\ pc' = "labels"
    /\ UNCHANGED <<fs, subjects, data, it, subject, fname, elements, amp, stim,
                   geo3d, dpf, stdout, reads>>

\* Line 27
AssignLabels ==
    /\ pc = "labels"
    /\ subjects' = Labels(fnames)
    /\ pc' = "newdata"
    /\ UNCHANGED <<fs, fnames, data, it, subject, fname, elements, amp, stim,
                   geo3d, dpf, stdout, reads>>

\* Line 30
NewData ==
    /\ pc = "newdata"
    /\ data' = EmptyDict
    /\ pc' = "loop"
    /\ UNCHANGED <<fs, fnames, subjects, it, subject, fname, elements, amp, stim,
                   geo3d, dpf, stdout, reads>>

ZipNextStuck ==
    /\ pc = "loop"
    /\ 0 < Min(Len(subjects), Len(fnames))
    /\ it' = Min(it + 1, 1)
    /\ subject' = subjects[1]
    /\ fname' = fnames[1]
    /\ pc' = "read"
    /\ UNCHANGED <<fs, fnames, subjects, data, elements, amp, stim, geo3d, dpf,
                   stdout, reads>>

\* Line 31: zip yields the next pair.
ZipNext ==
    /\ pc = "loop"
    /\ it < Min(Len(subjects), Len(fnames))
    /\ it' = it + 1
    /\ subject' = subjects[it + 1]
    /\ fname' = fnames[it + 1]
    /\ pc' = "read"
    /\ UNCHANGED <<fs, fnames, subjects, data, elements, amp, stim, geo3d, dpf,
                   stdout, reads>>

\* Line 31: zip is exhausted; the script ends.
ZipEnd ==
    /\ pc = "loop"
    /\ it >= Min(Len(subjects), Len(fnames))
    /\ pc' = "done"
    /\ UNCHANGED <<fs, fnames, subjects, data, it, subject, fname, elements, amp,
                   stim, geo3d, dpf, stdout, reads>>

\* Lines 32-38: the file is printed and read; amp, stim and geo3d are taken
\* from its first recording.
ReadSnirf ==
    /\ pc = "read"
    /\ fs[fname].readable
    /\ stdout' = Append(stdout, fname)
    /\ reads' = Append(reads, fname)
    /\ elements' = <<[data  |-> <<fs[fname].amp>>,
                      stim  |-> fs[fname].stim,
                      geo3d |-> fs[fname].geo3d]>>
    /\ amp' = elements'[1].data[1]
    /\ stim' = elements'[1].stim
    /\ geo3d' = elements'[1].geo3d
    /\ pc' = "dpf"
    /\ UNCHANGED <<fs, fnames, subjects, data, it, subject, fname, dpf>>

ReadSnirfSkips ==
    /\ pc = "read"
    /\ ~fs[fname].readable
    /\ stdout' = Append(stdout, fname)
    /\ reads' = Append(reads, fname)
    /\ pc' = "loop"
    /\ UNCHANGED <<fs, fnames, subjects, data, it, subject, fname, elements, amp,
                   stim, geo3d, dpf>>

\* Lines 32-34: read_snirf raises; nothing catches it.
ReadSnirfFails ==
    /\ pc = "read"
    /\ ~fs[fname].readable
    /\ stdout' = Append(stdout, fname)
    /\ reads' = Append(reads, fname)
    /\ pc' = "failed"
    /\ UNCHANGED <<fs, fnames, subjects, data, it, subject, fname, elements, amp,
                   stim, geo3d, dpf>>

BuildDpfBroadcast ==
    /\ pc = "dpf"
    /\ dpf' = [w \in 1..NumWavelengths(amp) |-> DpfValue]
    /\ pc' = "store"
    /\ UNCHANGED <<fs, fnames, subjects, data, it, subject, fname, elements, amp,
                   stim, geo3d, stdout, reads>>

\* Line 47: two values along the wavelength coordinate of amp; any other
\* number of wavelengths is a shape mismatch, which raises.
BuildDpf ==
    /\ pc = "dpf"
    /\ IF NumWavelengths(amp) = Len(DpfValues)
       THEN dpf' = DpfValues /\ pc' = "store"
       ELSE dpf' = dpf /\ pc' = "failed"
    /\ UNCHANGED <<fs, fnames, subjects, data, it, subject, fname, elements, amp,
                   stim, geo3d, stdout, reads>>

StoreDropped ==
    /\ pc = "store"
    /\ pc' = "loop"
    /\ UNCHANGED <<fs, fnames, subjects, data, it, subject, fname, elements, amp,
                   stim, geo3d, dpf, stdout, reads>>

StoreFresh ==
    /\ pc = "store"
    /\ data' = Assign(EmptyDict, subject, Dataset(subject, amp, stim, geo3d, dpf))
    /\ pc' = "loop"
    /\ UNCHANGED <<fs, fnames, subjects, it, subject, fname, elements, amp, stim,
                   geo3d, dpf, stdout, reads>>

\* Lines 49-58
Store ==
    /\ pc = "store"
    /\ data' = Assign(data, subject, Dataset(subject, amp, stim, geo3d, dpf))
    /\ pc' = "loop"
    /\ UNCHANGED <<fs, fnames, subjects, it, subject, fname, elements, amp, stim,
                   geo3d, dpf, stdout, reads>>

Next ==
    \/ Scan
    \/ AssignLabels
    \/ NewData
    \/ ZipNext
    \/ ZipEnd
    \/ ReadSnirf
    \/ ReadSnirfFails
    \/ BuildDpf
    \/ Store

Spec == Init /\ [][Next]_vars

SpecOD == InitOD /\ [][Next]_vars

-----------------------------------------------------------------------------
(* Vocabulary of the properties *)

\* The *.snirf files of the tree.
SnirfFilesOnDisk == {p \in DOMAIN fs : p[Len(p)].suffix = ".snirf"}

\* N: the number of files the scan finds.
NumFound == Cardinality(SnirfFilesOnDisk)

Terminated == pc \in {"done", "failed"}

\* The number of loop iterations that ran to their end.
Completed == IF pc \in {"read", "dpf", "store", "failed"} THEN it - 1 ELSE it

IsDigit(ch) == \E d \in 1..10 : DigitChars[d] = ch

DigitValue(ch) == (CHOOSE d \in 1..10 : DigitChars[d] = ch) - 1

RECURSIVE ParseDecimal(_)
ParseDecimal(s) ==
    IF s = <<>> THEN 0
    ELSE 10 * ParseDecimal(SubSeq(s, 1, Len(s) - 1)) + DigitValue(s[Len(s)])

\* k is "sub-" followed by a decimal number of at least two digits, padded
\* with zeros to two digits and no further.
WellFormedLabel(k) ==
    /\ Len(k) >= 6
    /\ SubSeq(k, 1, 4) = <<"s", "u", "b", "-">>
    /\ \A i \in 5..Len(k) : IsDigit(k[i])
    /\ Len(k) > 6 => k[5] # "0"

LabelNumber(k) == ParseDecimal(SubSeq(k, 5, Len(k)))

\* The file can be read and its amplitude has two wavelengths.
GoodFile(p) == fs[p].readable /\ Len(fs[p].amp[1]) = 2

\* od[c][w][t] is -log(q) for the rational q = a[c][w][t] / (mean over t'
\* of a[c][w][t']), for every channel c, wavelength w and time t.
IsNegLogRatioToTimeMean(od, a) ==
    /\ Len(od) = Len(a)
    /\ \A c \in 1..Len(a) :
         /\ Len(od[c]) = Len(a[c])
         /\ \A w \in 1..Len(a[c]) :
              /\ Len(od[c][w]) = Len(a[c][w])
              /\ \A t \in 1..Len(a[c][w]) :
                   \E n \in 1..(Len(a[c][w]) * a[c][w][t]), d \in 1..SumSeq(a[c][w]) :
                       /\ od[c][w][t] = <<"neg", <<"log", <<n, d>>>>>>
                       /\ n * SumSeq(a[c][w]) = d * a[c][w][t] * Len(a[c][w])

\* An upper bound on the number of statements still to run.
StepsLeft ==
    CASE pc = "scan"    -> 4 * NumFound + 4
      [] pc = "labels"  -> 4 * NumFound + 3
      [] pc = "newdata" -> 4 * NumFound + 2
      [] pc = "loop"    -> 4 * (NumFound - it) + 1
      [] pc = "read"    -> 4 * (NumFound - it) + 4
      [] pc = "dpf"     -> 4 * (NumFound - it) + 3
      [] pc = "store"   -> 4 * (NumFound - it) + 2
      [] OTHER          -> 0

-----------------------------------------------------------------------------
(* Properties *)

\* C1: when the script has completed without error over a scan that found
\* N files, data has exactly N entries, its keys are exactly the labels
\* sub-01 .. sub-N (two digits, zero padded), and every file found has
\* exactly one entry.
C1_OneEntryPerFile ==
    pc = "done" =>
        /\ Cardinality(DOMAIN data) = NumFound
        /\ \A k \in DOMAIN data : WellFormedLabel(k) /\ LabelNumber(k) \in 1..NumFound
        /\ \A i \in 1..NumFound : \E k \in DOMAIN data : LabelNumber(k) = i
        /\ \A p \in SnirfFilesOnDisk :
               Cardinality({k \in DOMAIN data : data[k].data_vars.geo = <<"geo3d", p>>}) = 1

C1_Witness == pc = "done" /\ Cardinality(DOMAIN data) = 3

\* C2: the scan is complete before any label is assigned, all labels are
\* assigned before the first read, files are read in list order, a
\* subject's file is read and its signals derived before its entry is
\* stored, and subject k+1's file is not read before subject k's entry is
\* stored.
C2_StepsInOrder ==
    /\ subjects # <<>> => Range(fnames) = SnirfFilesOnDisk /\ Len(fnames) = NumFound
    /\ reads # <<>> => Len(subjects) = NumFound
    /\ \A i \in 1..Len(reads) : reads[i] = fnames[i]
    /\ \A i \in 1..Len(subjects) :
          subjects[i] \in DOMAIN data =>
              /\ i <= Len(reads)
              /\ data[subjects[i]].data_vars.amp = fs[reads[i]].amp
              /\ IsNegLogRatioToTimeMean(data[subjects[i]].data_vars.od, fs[reads[i]].amp)
              /\ data[subjects[i]].data_vars.conc.amp = fs[reads[i]].amp
    /\ Len(reads) <= Cardinality(DOMAIN data) + 1

C2_Witness == Len(reads) = 3 /\ Cardinality(DOMAIN data) = 2 /\ pc = "store"

\* C3: a failure of the k-th file stops the script there: a file is read
\* only after all files before it were good, the script never completes
\* when a file is bad, and once failed, exactly k files were read and data
\* holds exactly the entries of the k-1 subjects before it, unchanged.
C3_FailureStopsTheScript ==
    /\ \A i \in 1..Len(reads) : \A j \in 1..(i - 1) : GoodFile(fnames[j])
    /\ \A i \in 1..Len(subjects) : subjects[i] \in DOMAIN data => GoodFile(fnames[i])
    /\ pc = "done" => \A p \in SnirfFilesOnDisk : GoodFile(p)
    /\ pc = "failed" =>
          /\ ~GoodFile(fnames[it])
          /\ Len(reads) = it
          /\ DOMAIN data = {subjects[i] : i \in 1..(it - 1)}
          /\ \A i \in 1..(it - 1) :
                data[subjects[i]].data_vars.geo = <<"geo3d", fnames[i]>>
    /\ (Terminated /\ \E p \in SnirfFilesOnDisk : ~GoodFile(p)) => pc = "failed"

C3_Witness ==
    /\ pc = "failed"
    /\ it = 2
    /\ Len(fnames) = 3
    /\ Cardinality(DOMAIN data) = 1

\* C4: every file read is a *.snirf file of the tree, no file is read
\* twice, after the scan the file list is the set of *.snirf files of the
\* tree and stays so, and in a run that completes every such file has been
\* read exactly once.
C4_ReadsAreTheScannedFiles ==
    /\ \A i \in 1..Len(reads) : reads[i] \in SnirfFilesOnDisk
    /\ \A i, j \in 1..Len(reads) : reads[i] = reads[j] => i = j
    /\ pc # "scan" => Range(fnames) = SnirfFilesOnDisk /\ Len(fnames) = NumFound
    /\ pc = "done" =>
          \A p \in SnirfFilesOnDisk :
              Cardinality({i \in 1..Len(reads) : reads[i] = p}) = 1

C4_Witness ==
    /\ pc = "done"
    /\ Len(reads) = 2
    /\ \E p \in DOMAIN fs : p \notin SnirfFilesOnDisk
    /\ \E i \in 1..Len(reads) : Len(reads[i]) = 2

\* C5: every entry of data has the variables amp, od, geo and conc, the
\* stimulus table in its attributes and its key as subject coordinate, and
\* all of them come from the file paired with the key.
C5_EntryIsCompleteBundle ==
    \A k \in DOMAIN data :
        \E i \in 1..Len(subjects) :
            /\ subjects[i] = k
            /\ DOMAIN data[k].data_vars = {"amp", "od", "geo", "conc"}
            /\ data[k].coords.subject = k
            /\ data[k].data_vars.amp = fs[fnames[i]].amp
            /\ IsNegLogRatioToTimeMean(data[k].data_vars.od, fs[fnames[i]].amp)
            /\ data[k].data_vars.geo = <<"geo3d", fnames[i]>>
            /\ data[k].data_vars.conc.amp = fs[fnames[i]].amp
            /\ data[k].data_vars.conc.geo3d = <<"geo3d", fnames[i]>>
            /\ data[k].attrs.stim = <<"stim", fnames[i]>>

C5_Witness == Cardinality(DOMAIN data) = 3

\* C6: for every stored subject, od[c][w][t] is the negative logarithm of
\* amp[c][w][t] divided by the mean over time of amp[c][w], for the amp
\* stored in the same entry.
C6_OpticalDensity ==
    \A k \in DOMAIN data :
        IsNegLogRatioToTimeMean(data[k].data_vars.od, data[k].data_vars.amp)

C6_Witness ==
    \E k \in DOMAIN data :
        LET a == data[k].data_vars.amp
        IN  /\ a[1][1][1] # a[1][1][2]
            /\ data[k].data_vars.od[1][1][1] # data[k].data_vars.od[1][2][1]

\* C7 as stated: whenever the script has ended, the loop body has run
\* exactly N times and N files have been read.
C7_Original == Terminated => it = NumFound /\ Len(reads) = NumFound

\* C7 as amended: the script always ends (every statement lowers the
\* bound StepsLeft, and a statement can run until the script has ended);
\* the loop body runs at most N times with at most N reads, exactly N of
\* each when the script completes without error; with no file found the
\* script completes with no read, no error and empty data.
C7_Terminates ==
    /\ [][StepsLeft' < StepsLeft]_vars
    /\ [](StepsLeft >= 0)
    /\ [](Terminated \/ ENABLED Next)
    /\ [](it <= NumFound /\ Len(reads) = Completed + (IF pc \in {"dpf", "store", "failed"} THEN 1 ELSE 0))
    /\ [](pc = "done" => it = NumFound /\ Len(reads) = NumFound)
    /\ [](NumFound = 0 => pc # "failed" /\ it = 0 /\ reads = <<>> /\ DOMAIN data = {})

C7_Witness == pc = "done" /\ it = 3 /\ Len(reads) = 3

C7_WitnessFailed == pc = "failed" /\ it = 1 /\ NumFound = 2

C7_WitnessEmpty == pc = "done" /\ NumFound = 0 /\ DOMAIN fs # {}

\* C8: dpf only ever holds the two values 6 and 6, every stored conc was
\* computed with them from an amplitude of two wavelengths, and a file
\* read with another number of wavelengths fails at its subject with no
\* entry stored for it.
C8_DpfShape ==
    /\ dpf # None => dpf = <<6, 6>>
    /\ pc = "store" => dpf = <<6, 6>> /\ Len(amp[1]) = 2
    /\ \A k \in DOMAIN data :
          /\ data[k].data_vars.conc.dpf = <<6, 6>>
          /\ Len(data[k].data_vars.amp[1]) = 2
    /\ \A i \in 1..Len(reads) :
          (fs[reads[i]].readable /\ Len(fs[reads[i]].amp[1]) # 2) =>
              /\ subjects[i] \notin DOMAIN data
              /\ it = i
              /\ pc \in {"dpf", "failed"}

C8_Witness ==
    /\ pc = "failed"
    /\ fs[fname].readable
    /\ Len(fs[fname].amp[1]) = 3
    /\ DOMAIN data # {}

\* C9: after the scan the file list holds the found paths in strictly
\* descending order, so the i-th label goes to the path with i-1 greater
\* found paths; labels and files are paired one to one and each entry is
\* built from the file paired with its label.
C9_DescendingPairing ==
    /\ pc # "scan" =>
          /\ Range(fnames) = SnirfFilesOnDisk
          /\ \A i, j \in 1..Len(fnames) : i < j => PathLess(fnames[j], fnames[i])
          /\ \A i \in 1..Len(fnames) :
                i = 1 + Cardinality({q \in SnirfFilesOnDisk : PathLess(fnames[i], q)})
    /\ pc \notin {"scan", "labels"} =>
          /\ Len(subjects) = Len(fnames)
          /\ \A i \in 1..Len(subjects) : LabelNumber(subjects[i]) = i
    /\ \A i \in 1..Len(subjects) :
          subjects[i] \in DOMAIN data =>
              data[subjects[i]].data_vars.geo = <<"geo3d", fnames[i]>>

C9_Witness ==
    /\ pc = "done"
    /\ Len(fnames) = 3
    /\ Len(fnames[3]) = 2
    /\ Cardinality(DOMAIN data) = 3

\* C10: a step never removes or changes an entry of data and adds at most
\* one key, and after k completed iterations the keys of data are exactly
\* the first k labels.
C10_DataOnlyGrows ==
    /\ [][/\ \A k \in DOMAIN data : k \in DOMAIN data' /\ data'[k] = data[k]
           /\ Cardinality(DOMAIN data') <= Cardinality(DOMAIN data) + 1
           /\ pc = "store" => Cardinality(DOMAIN data') = Cardinality(DOMAIN data) + 1]_vars
    /\ [](DOMAIN data = {subjects[i] : i \in 1..Completed})
    /\ [](\A k \in DOMAIN data : WellFormedLabel(k) /\ LabelNumber(k) \in 1..Completed)

C10_Witness == pc = "loop" /\ Cardinality(DOMAIN data) = 2 /\ it = 2

====
